---- MODULE Spec2Model ----
(***************************************************************************)
(* Model of the nanosaur command line interface:                           *)
(*   - the persisted parameter store  (src/nanosaur/utilities.py, Params)  *)
(*   - the installation command       (src/nanosaur/main.py, install)      *)
(***************************************************************************)
EXTENDS Integers, Sequences, FiniteSets, TLC

VARIABLES
    store,           \* "none": no Params object in this process, "live": one exists
    params_dict,     \* Params._params_dict
    default_params,  \* Params._default_params (deep copy taken by __init__)
    attrs,           \* instance attributes mirrored by setattr(self, key, value)
    params_file,     \* Params.params_file
    file,            \* content of the parameter file on disk
    saved,           \* history: the mapping of the last yaml.dump written by save()
    nops,            \* number of store operations run so far
    last,            \* history: the operation that ran last and its outcome
    isaac,           \* the folders under the two Isaac Sim search roots
    sim,             \* history: the last discovery or version check and its result
    dock,            \* the compose project and the calls the last orchestration made
    host             \* a launch on the host: the child, its two pipes, the parent's place

storeVars == <<store, params_dict, default_params, attrs, params_file, file, saved, nops, last>>

vars == <<store, params_dict, default_params, attrs, params_file, file, saved, nops, last,
          isaac, sim, dock, host>>

-----------------------------------------------------------------------------
(* Bounds *)

\* store operations of one behaviour, over all the processes it starts
MaxOps == 4

\* lines the child of a host launch writes before it ends
MaxLines == 4

\* lines a pipe holds before a write to it blocks
PipeCapacity == 2

-----------------------------------------------------------------------------
(* Python values *)

Str(s)    == [t |-> "str", v |-> s]
Bool(s)   == [t |-> "bool", v |-> s]
List(s)   == [t |-> "list", v |-> s]
Method(k) == [t |-> "method", v |-> k]
\* the nested mapping under 'simulation': v is its 'tool' entry
Dict(tool, location, path) ==
    [t |-> "dict", v |-> tool, location |-> location, isaac_sim_path |-> path]
NoneVal   == [t |-> "none", v |-> ""]

EmptyDict == [k \in {} |-> NoneVal]

\* d[k] = v of a Python dict
DictSet(d, k, v) == [x \in DOMAIN d \cup {k} |-> IF x = k THEN v ELSE d[x]]

\* del d[k]
DictDel(d, k) == [x \in DOMAIN d \ {k} |-> d[x]]

NoPath   == "None"
FilePath == "nanosaur.yml"

\* keys of the configuration, in the order yaml.dump writes them (sort_keys)
KeyOrder == <<"items", "mode", "robots", "simulation", "ws_debug">>

Keys == {KeyOrder[i] : i \in 1..Len(KeyOrder)}

\* names every Params instance resolves through its class
ClassMembers == {"load", "save", "get", "set", "items"}

-----------------------------------------------------------------------------
(* yaml.dump / yaml.safe_load *)

TrueWords  == {"true", "True", "yes", "on"}
FalseWords == {"false", "False", "no", "off"}
NullWords  == {"null", "~", ""}

\* a plain scalar with this text is not resolved to a string by the loader
ResolvesNonStr(text) == text \in TrueWords \cup FalseWords \cup NullWords

\* a representer that never quotes a string
DumpScalarUnquoted(k, v) ==
    IF v.t = "dict"
    THEN [key |-> k, style |-> "mapping", text |-> v.v,
          location |-> v.location, isaac_sim_path |-> v.isaac_sim_path]
    ELSE [key |-> k, style |-> IF v.t = "list" THEN "block" ELSE "plain",
          text |-> IF v.t = "none" THEN "null" ELSE v.v]

\* the representer: one "key: value" entry of the document
DumpScalar(k, v) ==
    IF v.t = "dict"
    THEN [key |-> k, style |-> "mapping", text |-> v.v,
          location |-> v.location, isaac_sim_path |-> v.isaac_sim_path]
    ELSE [key   |-> k,
          style |-> IF v.t = "list" THEN "block"
                    ELSE IF v.t = "str" /\ ResolvesNonStr(v.v) THEN "quoted"
                    ELSE "plain",
          text  |-> IF v.t = "none" THEN "null" ELSE v.v]

\* yaml.dump(mapping): a block mapping with the keys sorted
Dump(d) ==
    LET ks == SelectSeq(KeyOrder, LAMBDA k : k \in DOMAIN d)
    IN  [kind |-> "map", entries |-> [i \in 1..Len(ks) |-> DumpScalar(ks[i], d[ks[i]])]]

\* the resolver: the Python value of one entry
LoadScalar(e) ==
    IF e.style = "quoted" THEN Str(e.text)
    ELSE IF e.style = "block" THEN List(e.text)
    ELSE IF e.style = "mapping" THEN Dict(e.text, e.location, e.isaac_sim_path)
    ELSE IF e.text \in TrueWords THEN Bool("true")
    ELSE IF e.text \in FalseWords THEN Bool("false")
    ELSE IF e.text \in NullWords THEN NoneVal
    ELSE Str(e.text)

\* the mapping yaml.safe_load builds from a document that is a mapping
ParseMap(doc) ==
    LET idx == 1..Len(doc.entries)
    IN  [k \in {doc.entries[i].key : i \in idx} |->
            LoadScalar(doc.entries[CHOOSE i \in idx : doc.entries[i].key = k])]

AbsentFile == [kind |-> "absent", entries |-> <<>>]

\* documents a parameter file can hold before the program ever wrote it
InitFiles ==
    { AbsentFile,
      [kind |-> "malformed", entries |-> <<>>],     \* not YAML at all
      [kind |-> "null", entries |-> <<>>],          \* empty file
      [kind |-> "scalar", entries |-> <<>>],        \* a single word
      [kind |-> "seq", entries |-> <<>>],           \* a list
      [kind |-> "map", entries |-> <<>>],           \* {}
      [kind |-> "map", entries |-> <<[key |-> "ws_debug", style |-> "plain", text |-> "host"]>>],
      [kind |-> "map", entries |-> <<[key |-> "ws_debug", style |-> "plain", text |-> "yes"]>>] }

\* parameter files the installation command can find
InstallFiles ==
    { AbsentFile, [kind |-> "map", entries |-> <<>>] }
    \cup { [kind |-> "map", entries |-> <<[key |-> "mode", style |-> "plain", text |-> m]>>] :
             m \in {"simple", "developer", "maintainer", "Raffo"} }
    \cup { [kind |-> "map", entries |-> <<[key |-> "mode", style |-> "plain", text |-> m],
                                          [key |-> "robots", style |-> "block", text |-> "nanosaur"]>>] :
             m \in {"simple", "developer", "maintainer", "Raffo"} }

-----------------------------------------------------------------------------
(* The machine around the store, at rest *)

\* the folders find_all_isaac_sim can meet, in the order of base_paths
Folders == <<"ov/isaac-sim-a", "home/isaac-sim-a", "home/isaac-sim-4.9">>

FolderSet == {Folders[i] : i \in 1..Len(Folders)}

\* the files check_isaac_sim asks for
Markers == {"VERSION", "isaac-sim.sh", "python.sh"}

\* a folder that holds none of them
BareFolder == [markers |-> [m \in Markers |-> "absent"], text |-> <<>>]

NoIsaac == [p \in FolderSet |-> BareFolder]

\* the None check_isaac_sim returns for such a folder
NoVersion == [t |-> "none", v |-> <<>>]

\* what inquirer.prompt gives for a question nobody answered: None
Unanswered == [t |-> "none", v |-> <<>>]

\* the answers of simulation_set's four questions, none given
NoAnswers == [location |-> "", tool |-> "", version |-> Unanswered, custom |-> ""]

\* what an operation shows of itself: the value returned, the exception raised,
\* the defaults and answers of its prompts, what it printed, the block it leaves
Visible(ret, exc, defaults, answers, said, block) ==
    [ret |-> ret, exc |-> exc, defaults |-> defaults, answers |-> answers,
     said |-> said, block |-> block]

NoClean == Visible("None", "", NoAnswers, NoAnswers, "", Dict("", "", ""))

IdleSim == [op |-> "none", path |-> "", required |-> <<>>, conditions |-> <<>>,
            version |-> NoVersion, seen |-> NoIsaac, found |-> <<>>, kept |-> <<>>,
            ok |-> FALSE, exc |-> "",
            ret |-> "None", block |-> Dict("", "", ""), after |-> Dict("", "", ""),
            defaults |-> NoAnswers, answers |-> NoAnswers,
            changed |-> FALSE, stored |-> FALSE, reached |-> "", said |-> "",
            clean |-> NoClean]

IdleDock == [op |-> "none", machine |-> "", simulated |-> FALSE, configured |-> FALSE,
             calls |-> <<>>, profile |-> "None", profiles |-> <<>>,
             detach |-> FALSE, ret |-> "None", exc |-> "", said |-> "",
             before |-> FALSE, running |-> FALSE]

\* no launch on the host under way
IdleHost == [phase |-> "none", todo |-> <<>>, exited |-> FALSE, returncode |-> 0,
             stdout |-> <<>>, stderr |-> <<>>, written |-> 0, shown |-> <<>>,
             ret |-> "None"]

Outside == <<isaac, sim, dock, host>>

AtRest == isaac = NoIsaac /\ sim = IdleSim /\ dock = IdleDock /\ host = IdleHost

-----------------------------------------------------------------------------
(* Text, as the sequence of its characters *)

Digits == {"0", "1", "2", "3", "4", "5", "6", "7", "8", "9"}

DigitValue ==
    [c \in Digits |->
        CASE c = "0" -> 0 [] c = "1" -> 1 [] c = "2" -> 2 [] c = "3" -> 3 [] c = "4" -> 4
          [] c = "5" -> 5 [] c = "6" -> 6 [] c = "7" -> 7 [] c = "8" -> 8 [] c = "9" -> 9]

\* \s of a regular expression and the characters str.strip() removes
Whitespace == {" ", "\n"}

\* Python compares str by code point; the characters of a version, in that order
CodeOrder == <<"-", ".", "0", "1", "2", "3", "4", "5", "6", "7", "8", "9",
               "a", "e", "l", "s", "t">>

CodePoint(c) == CHOOSE i \in 1..Len(CodeOrder) : CodeOrder[i] = c

\* s < t of two str
RECURSIVE StrLess(_, _)
StrLess(s, t) ==
    IF t = <<>> THEN FALSE
    ELSE IF s = <<>> THEN TRUE
    ELSE IF Head(s) = Head(t) THEN StrLess(Tail(s), Tail(t))
    ELSE CodePoint(Head(s)) < CodePoint(Head(t))

\* the first index from i on whose character is outside set
RECURSIVE SkipWhile(_, _, _)
SkipWhile(s, i, set) ==
    IF i <= Len(s) /\ s[i] \in set THEN SkipWhile(s, i + 1, set) ELSE i

StartsWith(s, i, p) ==
    /\ i + Len(p) - 1 <= Len(s)
    /\ SubSeq(s, i, i + Len(p) - 1) = p

\* str.strip()
Strip(s) ==
    LET a == SkipWhile(s, 1, Whitespace)
        b == CHOOSE j \in 0..Len(s) :
                 /\ j = 0 \/ s[j] \notin Whitespace
                 /\ \A k \in (j + 1)..Len(s) : s[k] \in Whitespace
    IN  SubSeq(s, a, b)

\* str.split(sep) for a separator of one character
RECURSIVE Split(_, _)
Split(s, sep) ==
    LET j == SkipWhile(s, 1, {c \in {s[k] : k \in 1..Len(s)} : c # sep})
    IN  IF j > Len(s) THEN <<s>>
        ELSE <<SubSeq(s, 1, j - 1)>> \o Split(SubSeq(s, j + 1, Len(s)), sep)

-----------------------------------------------------------------------------
(* Isaac Sim versions: src/nanosaur/simulation.py *)

GE == <<">", "=">>
LE == <<"<", "=">>
GT == <<">">>
LT == <<"<">>
EQ == <<"=", "=">>
NE == <<"!", "=">>

\* the alternation of PATTERN_VERSION, in the order the regular expression tries it
Alternatives == <<GE, LE, GT, LT, EQ, NE>>

\* [\d\.]
VersionChars == Digits \cup {"."}

NoMatch == [found |-> FALSE, op |-> <<>>, ver |-> <<>>, next |-> 0]

\* PATTERN_VERSION matched at index i of s: (>=|<=|>|<|==|!=)\s*([\d\.]+)
MatchAt(s, i) ==
    LET fits(a) ==
            /\ StartsWith(s, i, Alternatives[a])
            /\ LET j == SkipWhile(s, i + Len(Alternatives[a]), Whitespace)
               IN  SkipWhile(s, j, VersionChars) > j
        tried == {a \in 1..Len(Alternatives) : fits(a)}
    IN  IF tried = {} THEN NoMatch
        ELSE LET a == CHOOSE x \in tried : \A y \in tried : x <= y
                 j == SkipWhile(s, i + Len(Alternatives[a]), Whitespace)
                 e == SkipWhile(s, j, VersionChars)
             IN  [found |-> TRUE, op |-> Alternatives[a], ver |-> SubSeq(s, j, e - 1),
                  next |-> e]

\* PATTERN_VERSION.findall(s), scanning from index i
RECURSIVE FindAll(_, _)
FindAll(s, i) ==
    IF i > Len(s) THEN <<>>
    ELSE LET m == MatchAt(s, i)
         IN  IF m.found
             THEN <<[op |-> m.op, ver |-> m.ver]>> \o FindAll(s, m.next)
             ELSE FindAll(s, i + 1)

\* int() of a run of digits
RECURSIVE IntOf(_)
IntOf(s) ==
    IF s = <<>> THEN 0 ELSE 10 * IntOf(SubSeq(s, 1, Len(s) - 1)) + DigitValue[s[Len(s)]]

\* the release of a version without its trailing zeros, as packaging compares it
RECURSIVE DropTrailingZeros(_)
DropTrailingZeros(r) ==
    IF r # <<>> /\ r[Len(r)] = 0 THEN DropTrailingZeros(SubSeq(r, 1, Len(r) - 1)) ELSE r

InvalidVersion == [valid |-> FALSE, release |-> <<>>]

\* packaging.version.parse(s) for a text of digits, dots and other characters:
\* a release N(.N)* is a version, anything else raises InvalidVersion
Parse(s) ==
    LET parts == Split(s, ".")
    IN  IF \A k \in 1..Len(parts) :
               /\ parts[k] # <<>>
               /\ \A n \in 1..Len(parts[k]) : parts[k][n] \in Digits
        THEN [valid |-> TRUE,
              release |-> DropTrailingZeros([k \in 1..Len(parts) |-> IntOf(parts[k])])]
        ELSE InvalidVersion

\* a < b of two tuples of int
RECURSIVE TupleLess(_, _)
TupleLess(a, b) ==
    IF b = <<>> THEN FALSE
    ELSE IF a = <<>> THEN TRUE
    ELSE IF Head(a) = Head(b) THEN TupleLess(Tail(a), Tail(b))
    ELSE Head(a) < Head(b)

\* a mapping that sends every operator to operator.ge
GreaterOrEqualOnly(op, a, b) == ~TupleLess(a.release, b.release)

\* MAP_OPERATOR_VERSION[op](a, b) of two parsed versions
MAP_OPERATOR_VERSION(op, a, b) ==
    CASE op = GE -> ~TupleLess(a.release, b.release)
      [] op = LE -> ~TupleLess(b.release, a.release)
      [] op = GT -> TupleLess(b.release, a.release)
      [] op = LT -> TupleLess(a.release, b.release)
      [] op = EQ -> a.release = b.release
      [] op = NE -> a.release # b.release

\* a check that asks for the VERSION file alone
check_version_file(f) ==
    IF f.markers["VERSION"] = "file"
    THEN [t |-> "str", v |-> Split(Strip(f.text), "-")[1]]
    ELSE NoVersion

\* check_isaac_sim(full_path) on a folder in state f
check_isaac_sim(f) ==
    IF \A m \in Markers : f.markers[m] = "file"
    THEN [t |-> "str", v |-> Split(Strip(f.text), "-")[1]]
    ELSE NoVersion

\* the truth value Python gives the result of check_isaac_sim
Truthy(x) == x.t = "str" /\ x.v # <<>>

\* any(...) in the place of all(...)
AnyHolds(version, conditions, k) ==
    [ok |-> \E i \in k..Len(conditions) :
                /\ Parse(version).valid
                /\ Parse(conditions[i].ver).valid
                /\ MAP_OPERATOR_VERSION(conditions[i].op, Parse(version), Parse(conditions[i].ver)),
     exc |-> ""]

\* all(...) over the conditions from index k on, evaluated left to right
RECURSIVE AllHold(_, _, _)
AllHold(version, conditions, k) ==
    IF k > Len(conditions) THEN [ok |-> TRUE, exc |-> ""]
    ELSE LET a == Parse(version)
             b == Parse(conditions[k].ver)
         IN  IF ~a.valid \/ ~b.valid THEN [ok |-> FALSE, exc |-> "InvalidVersion"]
             ELSE IF MAP_OPERATOR_VERSION(conditions[k].op, a, b)
                  THEN AllHold(version, conditions, k + 1)
                  ELSE [ok |-> FALSE, exc |-> ""]

\* validate_isaac_sim(isaac_sim_path, required) on a folder in state f
validate_isaac_sim(f, required) ==
    LET conditions == FindAll(required, 1)
        version == check_isaac_sim(f)
    IN  IF Truthy(version) THEN AllHold(version.v, conditions, 1)
        ELSE [ok |-> FALSE, exc |-> ""]

-----------------------------------------------------------------------------
(* class Params *)

NoOp == [op |-> "none", key |-> "", val |-> NoneVal, ret |-> NoneVal, exc |-> "",
         writes |-> 0, called |-> FALSE, preDict |-> EmptyDict, preFile |-> AbsentFile]

Done(op, key, val, ret, exc, writes) ==
    [op |-> op, key |-> key, val |-> val, ret |-> ret, exc |-> exc, writes |-> writes,
     called |-> FALSE, preDict |-> params_dict, preFile |-> file]

\* a load that falls back to the defaults when the document is no mapping
LoadResultLenient(pf, f, defaults) ==
    IF pf = NoPath THEN [exc |-> "TypeError", dict |-> EmptyDict]
    ELSE IF f.kind = "map" THEN [exc |-> "", dict |-> ParseMap(f)]
    ELSE [exc |-> "", dict |-> defaults]

\* Params.load followed by Params.__init__: the exception raised, or the seed mapping
LoadResult(pf, f, defaults) ==
    IF pf = NoPath THEN [exc |-> "TypeError", dict |-> EmptyDict]        \* os.path.exists(None)
    ELSE IF f.kind = "absent" THEN [exc |-> "", dict |-> defaults]
    ELSE IF f.kind = "malformed" THEN [exc |-> "YAMLError", dict |-> EmptyDict]
    ELSE IF f.kind = "map" THEN [exc |-> "", dict |-> ParseMap(f)]
    ELSE [exc |-> "AttributeError", dict |-> EmptyDict]                  \* params_dict.items()

\* a save without the comparison with the loaded mapping
SaveWritesAlways(pf, d, dflt) == pf # NoPath

\* the condition of Params.save
SaveWrites(pf, d, dflt) == pf # NoPath /\ d # dflt

\* the file after Params.save
SaveFile(pf, d, dflt, f) == IF SaveWrites(pf, d, dflt) THEN Dump(d) ELSE f

SavedAfter(pf, d, dflt) ==
    IF SaveWrites(pf, d, dflt) THEN [valid |-> TRUE, dict |-> d] ELSE saved

\* getattr(self, key, default) on an instance whose attributes are a
GetAttr(a, key, default) ==
    IF key \in DOMAIN a THEN a[key]
    ELSE IF key \in ClassMembers THEN Method(key)
    ELSE default

\* Params.get
Get(key, default) == GetAttr(attrs, key, default)

\* Params.__contains__
Contains(key) == key \in DOMAIN params_dict

\* Params.__getitem__: the value, or KeyError
GetItem(key) ==
    IF key \in DOMAIN params_dict THEN [exc |-> "", val |-> params_dict[key]]
    ELSE [exc |-> "KeyError", val |-> NoneVal]

\* Params.__init__(params_dict, params_file)
Construct(d, pf) ==
    /\ store' = "live"
    /\ params_dict' = d
    /\ default_params' = d
    /\ attrs' = d
    /\ params_file' = pf

NoStore ==
    /\ store' = "none"
    /\ params_dict' = EmptyDict
    /\ default_params' = EmptyDict
    /\ attrs' = EmptyDict
    /\ params_file' = NoPath

\* Params.load(default_params, params_file)
Load(defaults, pf) ==
    /\ store = "none"
    /\ LET r == LoadResult(pf, file, defaults)
       IN  /\ IF r.exc = "" THEN Construct(r.dict, pf) ELSE NoStore
           /\ last' = Done("load", pf, NoneVal, NoneVal, r.exc, 0)
    /\ UNCHANGED <<file, saved, nops>>
    /\ UNCHANGED Outside

\* Params(params_dict): a store that has no file
New(d) ==
    /\ store = "none"
    /\ Construct(d, NoPath)
    /\ last' = Done("new", "", NoneVal, NoneVal, "", 0)
    /\ UNCHANGED <<file, saved, nops>>
    /\ UNCHANGED Outside

\* the process ends
Exit ==
    /\ store = "live"
    /\ NoStore
    /\ last' = Done("exit", "", NoneVal, NoneVal, "", 0)
    /\ UNCHANGED <<file, saved, nops>>
    /\ UNCHANGED Outside

Running == store = "live" /\ nops < MaxOps

\* Params.__setitem__(key, value)
SetItem(key, value) ==
    /\ Running
    /\ LET d == DictSet(params_dict, key, value)
       IN  /\ params_dict' = d
           /\ attrs' = DictSet(attrs, key, value)
           /\ file' = SaveFile(params_file, d, default_params, file)
           /\ saved' = SavedAfter(params_file, d, default_params)
           /\ last' = Done("setitem", key, value, NoneVal, "",
                           IF SaveWrites(params_file, d, default_params) THEN 1 ELSE 0)
    /\ nops' = nops + 1
    /\ UNCHANGED <<store, default_params, params_file>>
    /\ UNCHANGED Outside

\* Params.__delitem__(key)
DelItem(key) ==
    /\ Running
    /\ IF key \notin DOMAIN params_dict
       THEN /\ last' = Done("delitem", key, NoneVal, NoneVal, "KeyError", 0)
            /\ UNCHANGED <<params_dict, attrs>>
       ELSE /\ params_dict' = DictDel(params_dict, key)
            /\ attrs' = DictDel(attrs, key)
            /\ last' = Done("delitem", key, NoneVal, NoneVal,
                            IF key \in DOMAIN attrs THEN "" ELSE "AttributeError", 0)
    /\ nops' = nops + 1
    /\ UNCHANGED <<store, default_params, params_file, file, saved>>
    /\ UNCHANGED Outside

\* Params.save()
Save ==
    /\ Running
    /\ file' = SaveFile(params_file, params_dict, default_params, file)
    /\ saved' = SavedAfter(params_file, params_dict, default_params)
    /\ last' = Done("save", "", NoneVal, NoneVal, "",
                    IF SaveWrites(params_file, params_dict, default_params) THEN 1 ELSE 0)
    /\ nops' = nops + 1
    /\ UNCHANGED <<store, params_dict, default_params, attrs, params_file>>
    /\ UNCHANGED Outside

\* Params.set(key, value)
Set(key, value) ==
    /\ Running
    /\ attrs' = DictSet(attrs, key, value)
    /\ file' = SaveFile(params_file, params_dict, default_params, file)
    /\ saved' = SavedAfter(params_file, params_dict, default_params)
    /\ last' = Done("set", key, value, value, "",
                    IF SaveWrites(params_file, params_dict, default_params) THEN 1 ELSE 0)
    /\ nops' = nops + 1
    /\ UNCHANGED <<store, params_dict, default_params, params_file>>
    /\ UNCHANGED Outside

-----------------------------------------------------------------------------
(* A client of the store *)

\* keys and values the client uses; "items" is also the name of a method
ApiKeys   == {"ws_debug", "items"}
ApiValues == {Str("host"), Str("true"), Bool("true")}

\* default mappings handed to load (main.py hands DEFAULT_PARAMS = {})
DefaultsSet == {EmptyDict, [k \in {"ws_debug"} |-> Str("true")]}

Init ==
    /\ store = "none"
    /\ params_dict = EmptyDict
    /\ default_params = EmptyDict
    /\ attrs = EmptyDict
    /\ params_file = NoPath
    /\ file \in InitFiles
    /\ saved = [valid |-> FALSE, dict |-> EmptyDict]
    /\ nops = 0
    /\ last = NoOp
    /\ AtRest

Next ==
    \/ \E d \in DefaultsSet, pf \in {NoPath, FilePath} : Load(d, pf)
    \/ \E d \in DefaultsSet : New(d)
    \/ \E k \in ApiKeys, v \in ApiValues : SetItem(k, v)
    \/ \E k \in ApiKeys, v \in ApiValues : Set(k, v)
    \/ \E k \in ApiKeys : DelItem(k)
    \/ Save
    \/ Exit

Spec == Init /\ [][Next]_vars

-----------------------------------------------------------------------------
(* Properties of the store *)

Dirty == params_file # NoPath /\ params_dict # default_params

\* C1: Params.save() writes the file if and only if a path was given and the
\* mapping differs from the mapping the store was initialised with: one write
\* of the current mapping when it differs, no write and the file untouched
\* otherwise.
SaveWritesIffDirty ==
    last.op = "save" =>
        /\ last.writes = (IF Dirty THEN 1 ELSE 0)
        /\ file = (IF Dirty THEN Dump(params_dict) ELSE last.preFile)

SaveWroteDirtyStore ==
    /\ last.op = "save"
    /\ last.writes = 1
    /\ params_dict # default_params
    /\ file # last.preFile

\* C2: after Params.set(key, value) on a store with a path, with a value other
\* than the loaded one, the mapping holds key -> value, get(key) returns value
\* and the file holds key -> value.
SetMutatesAndPersists ==
    ( /\ last.op = "set"
      /\ params_file # NoPath
      /\ (last.key \notin DOMAIN default_params \/ default_params[last.key] # last.val) )
    =>
        /\ Contains(last.key)
        /\ GetItem(last.key).val = last.val
        /\ Get(last.key, NoneVal) = last.val
        /\ file.kind = "map"
        /\ last.key \in DOMAIN ParseMap(file)
        /\ ParseMap(file)[last.key] = last.val

\* C3: every item assignment store[key] = value on a store with a path writes
\* the file, also when the resulting mapping equals the loaded one.
SetItemAlwaysWrites ==
    (last.op = "setitem" /\ params_file # NoPath) => last.writes = 1

\* C4: a mapping written by save() is read back unchanged by Params.load,
\* whatever defaults load is given.
RoundTrip ==
    /\ last.writes = 1 =>
          \A d \in DefaultsSet :
              LoadResult(FilePath, file, d) = [exc |-> "", dict |-> params_dict]
    /\ (last.op = "load" /\ last.key = FilePath /\ saved.valid) =>
          (store = "live" /\ last.exc = "" /\ params_dict = saved.dict)

ReloadedSavedMapping ==
    /\ last.op = "load"
    /\ saved.valid
    /\ store = "live"
    /\ "items" \in DOMAIN params_dict
    /\ params_dict["items"] = Str("true")

\* C5: get(key, default) returns default for every key absent from the mapping
\* and the mapped value for every key present, member names included.
GetReturnsMappingOrDefault ==
    store = "live" =>
        \A k \in Keys \cup ClassMembers, dflt \in {NoneVal, Str("host")} :
            Get(k, dflt) = IF Contains(k) THEN params_dict[k] ELSE dflt

\* the exceptions Params.load raises on a file it cannot use
ConfigLoadError == {"YAMLError", "AttributeError"}

Unparseable == {"malformed", "null", "scalar", "seq"}

\* C6: Params.load of an existing file that is not a mapping document fails:
\* no store is returned and the file is left as it was.
LoadMalformedFails ==
    (last.op = "load" /\ last.key = FilePath /\ last.preFile.kind \in Unparseable) =>
        /\ last.exc \in ConfigLoadError
        /\ store = "none"
        /\ file = last.preFile

LoadedMalformedFile ==
    /\ last.op = "load"
    /\ last.key = FilePath
    /\ last.preFile.kind = "malformed"
    /\ last.exc = "YAMLError"
    /\ store = "none"

-----------------------------------------------------------------------------
(* main.py: the installation command *)

Modes == {"simple", "developer", "maintainer", "Raffo"}

\* a rules table that lists only the tier right below each mode
RuleDirect(m) ==
    CASE m = "simple"     -> {}
      [] m = "developer"  -> {"simple"}
      [] m = "maintainer" -> {"developer"}
      [] m = "Raffo"      -> {"maintainer"}

\* NANOSAUR_INSTALL_OPTIONS_RULES[mode]['rule']
Rule(m) ==
    CASE m = "simple"     -> {}
      [] m = "developer"  -> {"simple"}
      [] m = "maintainer" -> {"simple", "developer"}
      [] m = "Raffo"      -> {"simple", "developer", "maintainer"}

\* NANOSAUR_INSTALL_OPTIONS_RULES[mode]['show']: the choices of the prompt
Shown == {"simple", "developer", "maintainer"}

\* args.name: no name, a mode, or a word that names no mode
NoName == "None"
Names  == Modes \cup {NoName, "bogus"}

\* the 'mode' entry of a mapping
StoredMode(d) == IF "mode" \in DOMAIN d THEN d["mode"].v ELSE "absent"

\* the 'mode' entry of the parameter file
FileMode(f) == IF f.kind = "map" THEN StoredMode(ParseMap(f)) ELSE "absent"

\* robot.wizard, called on a first install: when it succeeds the store holds 'robots'
WizardDict(d, ok) == IF ok THEN DictSet(d, "robots", List("nanosaur")) ELSE d

\* how far install gets before the mode is looked at
Stage(docker, first, wiz, cancel, confirm, known, opOk) ==
    IF ~docker THEN "no_docker"
    ELSE IF first /\ ~wiz THEN "wizard_failed"
    ELSE IF cancel THEN "cancelled"
    ELSE IF ~confirm THEN "declined"
    ELSE IF ~known THEN "bad_name"                \* KeyError at the rules table
    ELSE IF ~opOk THEN "op_failed"
    ELSE "op_ok"

\* an install that stores its target whatever the current mode
WritesModeAlways(current, install_type) == TRUE

\* the condition under which install stores install_type as the mode
WritesMode(current, install_type) == install_type \notin Rule(current)

\* an install that stores the mode without looking at the function's result
ReachesModeEarly(stage) == stage \in {"op_ok", "op_failed"}

\* install goes on to the mode only after the install function returned True
ReachesMode(stage) == stage = "op_ok"

\* the store after the wizard call of a first install: mapping, attributes, file, history
AfterWizard(wizRan, wiz) ==
    IF wizRan /\ wiz
    THEN LET d == WizardDict(params_dict, wiz)
         IN  [dict  |-> d,
              attrs |-> WizardDict(attrs, wiz),
              file  |-> SaveFile(params_file, d, default_params, file),
              saved |-> SavedAfter(params_file, d, default_params)]
    ELSE [dict |-> params_dict, attrs |-> attrs, file |-> file, saved |-> saved]

\* params['mode'] = install_type on the store s
AfterSetMode(s, install_type) ==
    LET d == DictSet(s.dict, "mode", Str(install_type))
        w == SaveWrites(params_file, d, default_params)
    IN  [dict   |-> d,
         attrs  |-> DictSet(s.attrs, "mode", Str(install_type)),
         file   |-> IF w THEN Dump(d) ELSE s.file,
         saved  |-> IF w THEN [valid |-> TRUE, dict |-> d] ELSE s.saved,
         writes |-> IF w THEN 1 ELSE 0]

\* install(platform, params, args)
Install(docker, wiz, name, yes, cancel, choice, confirmed, opOk) ==
    /\ Running
    /\ LET first   == ~Contains("robots")
           asked   == name = NoName \/ ~yes              \* a question is put to the user
           stop    == asked /\ cancel                    \* inquirer.prompt returns None
           install_type == IF name = NoName THEN (IF stop THEN NoName ELSE choice) ELSE name
           confirm == IF yes THEN TRUE ELSE confirmed
       IN  \E stage \in {Stage(docker, first, wiz, stop, confirm, install_type \in Modes, opOk)} :
           \E s1 \in {AfterWizard(docker /\ first, wiz)} :
           LET badName == stage = "bad_name"
               called  == stage \in {"op_failed", "op_ok"}     \* the install function ran
               current == GetAttr(s1.attrs, "mode", Str("simple")).v
               atMode  == ReachesMode(stage) /\ ~badName
               badMode == atMode /\ current \notin Modes       \* KeyError at the rules table
               exc     == IF badName \/ badMode THEN "KeyError" ELSE ""
           IN  \E setMode \in {atMode /\ ~badMode /\ WritesMode(current, install_type)} :
               \E s2 \in {IF setMode THEN AfterSetMode(s1, install_type)
                          ELSE [dict |-> s1.dict, attrs |-> s1.attrs, file |-> s1.file,
                                saved |-> s1.saved, writes |-> 0]} :
                   /\ params_dict' = s2.dict
                   /\ attrs' = s2.attrs
                   /\ file' = s2.file
                   /\ saved' = s2.saved
                   /\ last' = [Done("install", install_type, Str(stage),
                                    IF exc # "" THEN NoneVal
                                    ELSE IF stage = "op_ok" THEN Bool("true") ELSE Bool("false"),
                                    exc, s2.writes)
                               EXCEPT !.called = called]
    /\ nops' = nops + 1
    /\ UNCHANGED <<store, default_params, params_file>>
    /\ UNCHANGED Outside

InitInstall ==
    /\ store = "none"
    /\ params_dict = EmptyDict
    /\ default_params = EmptyDict
    /\ attrs = EmptyDict
    /\ params_file = NoPath
    /\ file \in InstallFiles
    /\ saved = [valid |-> FALSE, dict |-> EmptyDict]
    /\ nops = 0
    /\ last = NoOp
    /\ AtRest

NextInstall ==
    \/ Load(EmptyDict, FilePath)
    \/ New(EmptyDict)
    \/ \E docker \in BOOLEAN :
       \E wiz \in (IF docker THEN BOOLEAN ELSE {TRUE}) :
       \E name \in (IF docker THEN Names ELSE {NoName}) :
       \E yes \in (IF docker THEN BOOLEAN ELSE {TRUE}) :
       \E cancel \in (IF docker /\ (name = NoName \/ ~yes) THEN BOOLEAN ELSE {FALSE}) :
       \E choice \in (IF docker /\ name = NoName /\ ~cancel THEN Shown ELSE {"simple"}) :
       \E confirmed \in (IF docker /\ ~yes /\ ~cancel THEN BOOLEAN ELSE {TRUE}) :
       \E opOk \in (IF docker /\ ~cancel /\ (yes \/ confirmed) THEN BOOLEAN ELSE {TRUE}) :
          Install(docker, wiz, name, yes, cancel, choice, confirmed, opOk)
    \/ Exit

SpecInstall == InitInstall /\ [][NextInstall]_vars

-----------------------------------------------------------------------------
(* Properties of the installation command *)

\* position of a stored mode in simple < developer < maintainer < Raffo
Tier(m) ==
    CASE m = "simple"     -> 1
      [] m = "developer"  -> 2
      [] m = "maintainer" -> 3
      [] m = "Raffo"      -> 4
      [] OTHER            -> 0

\* the install function of the target mode ran and returned True
InstallSucceeded == last.op = "install" /\ last.val = Str("op_ok") /\ last.exc = ""

\* the file holds the mode of the store whenever the store has a file
FileFollows == params_file # NoPath => FileMode(file) = StoredMode(params_dict)

\* C7: with no stored mode a successful install("maintainer") returns True and
\* stores maintainer; a successful install("developer") on a store whose mode
\* is maintainer returns True and leaves maintainer stored.
MaintainerThenDeveloper ==
    /\ (InstallSucceeded /\ last.key = "maintainer" /\ StoredMode(last.preDict) = "absent") =>
          /\ last.ret = Bool("true")
          /\ StoredMode(params_dict) = "maintainer"
          /\ FileFollows
    /\ (InstallSucceeded /\ last.key = "developer" /\ StoredMode(last.preDict) = "maintainer") =>
          /\ last.ret = Bool("true")
          /\ StoredMode(params_dict) = "maintainer"
          /\ FileFollows

\* the store was loaded without a mode, maintainer was installed, then developer
DeveloperAfterMaintainer ==
    /\ InstallSucceeded
    /\ last.key = "developer"
    /\ StoredMode(default_params) = "absent"
    /\ StoredMode(last.preDict) = "maintainer"
    /\ FileMode(last.preFile) = "maintainer"
    /\ StoredMode(params_dict) = "maintainer"

\* C8: no step moves the stored mode, in memory or on file, to a lower tier.
ModeNeverDecreases ==
    [][ /\ Tier(FileMode(file')) >= Tier(FileMode(file))
        /\ (store = "live" /\ store' = "live") =>
               Tier(StoredMode(params_dict')) >= Tier(StoredMode(params_dict)) ]_vars

SimpleRerunAfterMaintainer ==
    /\ InstallSucceeded
    /\ last.key = "simple"
    /\ StoredMode(last.preDict) = "maintainer"
    /\ StoredMode(params_dict) = "maintainer"

\* C9: when install changes the stored mode to M, the mode stored before was
\* absent or a member of M's rule list.
TransitionFromPrerequisite ==
    (last.op = "install" /\ StoredMode(params_dict) # StoredMode(last.preDict)) =>
        /\ StoredMode(params_dict) \in Modes
        /\ \/ StoredMode(last.preDict) = "absent"
           \/ StoredMode(last.preDict) \in Rule(StoredMode(params_dict))

DeveloperToMaintainer ==
    /\ last.op = "install"
    /\ StoredMode(last.preDict) = "developer"
    /\ StoredMode(params_dict) = "maintainer"

\* C10: an install whose install function failed, or that the user declined or
\* cancelled, returns False and leaves the stored mode as it was, in memory and
\* on file; the mode changes only after the function reported success; a
\* declined or cancelled install does not invoke the function.
FailedInstallKeepsMode ==
    /\ (last.op = "install" /\ last.val \in {Str("op_failed"), Str("declined"), Str("cancelled")}) =>
          /\ last.ret = Bool("false")
          /\ StoredMode(params_dict) = StoredMode(last.preDict)
          /\ FileMode(file) = FileMode(last.preFile)
    /\ (last.op = "install" /\ last.val \in {Str("declined"), Str("cancelled")}) => ~last.called
    /\ (last.op = "install" /\ last.val = Str("op_failed")) => last.called
    /\ (last.op = "install" /\ ( StoredMode(params_dict) # StoredMode(last.preDict)
                              \/ FileMode(file) # FileMode(last.preFile) )) =>
          InstallSucceeded

FailedUpgradeAttempt ==
    /\ last.op = "install"
    /\ last.val = Str("op_failed")
    /\ last.called
    /\ last.key = "maintainer"
    /\ StoredMode(last.preDict) = "simple"
    /\ StoredMode(params_dict) = "simple"
    /\ FileMode(file) = "simple"

-----------------------------------------------------------------------------
(* The version check of an installation against a release requirement *)

\* a folder with the three files, whose VERSION file holds text
Installed(text) == [markers |-> [m \in Markers |-> "file"], text |-> text]

\* contents of a VERSION file
VersionTexts ==
    { <<"4", ".", "9">>,
      <<"4", ".", "1", "0">>,
      <<"4", ".", "1">>,
      <<"4", ".", "0", ".", "0">>,
      <<"4", ".", "2", ".", "0", "-", "r", "c", ".", "1", "8", "\n">>,
      <<"1", "0">>,
      <<"l", "a", "t", "e", "s", "t", "\n">>,
      <<"\n">> }

\* what a requirement puts where an operator goes, before a version
OperatorTexts == {GE, LE, GT, LT, EQ, NE, <<>>, <<"=">>, <<"~", "=">>}

\* the text after it, where a version goes
OperandTexts ==
    { <<"4", ".", "9">>, <<"4", ".", "1", "0">>, <<"4", ".", "1">>, <<"4", ".", "0">>,
      <<"4">>, <<"4", ".", ".", "1">>, <<"x">>, <<>> }

LowerBounds == {GE \o <<"4", ".", "1">>, GT \o <<"4", ".", "9">>, NE \o <<"4", ".", "1", "0">>}

UpperBounds == {LT \o <<"5">>, LE \o <<" ", "4", ".", "9">>, LT \o <<"4", ".", "1", "0">>,
                EQ \o <<"4", ".", "1", "0">>}

\* the 'isaac_sim' entry of NANOSAUR_DISTRO_MAP: requirement strings of one
\* clause, of two clauses, and of none
Requirements ==
    { op \o gap \o v : op \in OperatorTexts, gap \in {<<>>, <<" ">>}, v \in OperandTexts }
    \cup { a \o sep \o b : a \in LowerBounds, b \in UpperBounds, sep \in {<<",">>, <<",", " ">>} }

InitResolver ==
    /\ store = "none"
    /\ params_dict = EmptyDict
    /\ default_params = EmptyDict
    /\ attrs = EmptyDict
    /\ params_file = NoPath
    /\ file = AbsentFile
    /\ saved = [valid |-> FALSE, dict |-> EmptyDict]
    /\ nops = 0
    /\ last = NoOp
    /\ \E text \in VersionTexts : isaac = [NoIsaac EXCEPT !["ov/isaac-sim-a"] = Installed(text)]
    /\ sim = IdleSim
    /\ dock = IdleDock
    /\ host = IdleHost

\* validate_isaac_sim(isaac_sim_path, required)
Validate(path, required) ==
    /\ sim = IdleSim
    /\ \E r \in {validate_isaac_sim(isaac[path], required)} :
          sim' = [IdleSim EXCEPT !.op = "validate_isaac_sim",
                                 !.path = path,
                                 !.required = required,
                                 !.conditions = FindAll(required, 1),
                                 !.version = check_isaac_sim(isaac[path]),
                                 !.ok = r.ok,
                                 !.exc = r.exc]
    /\ UNCHANGED <<isaac, dock, host>>
    /\ UNCHANGED storeVars

NextResolver ==
    \E path \in FolderSet, required \in Requirements : Validate(path, required)

SpecResolver == InitResolver /\ [][NextResolver]_vars

Validated == sim.op = "validate_isaac_sim" /\ Truthy(sim.version)

\* C11: for a requirement string from which the operator pattern extracts no
\* clause, validate_isaac_sim returns True for every version an installation
\* reports, and raises nothing.
NoClauseAlwaysSatisfied ==
    (Validated /\ sim.conditions = <<>>) => (sim.ok /\ sim.exc = "")

\* a version that parses as no release, checked against a requirement that names
\* a version without an operator
ValidatedWithoutClause ==
    /\ Validated
    /\ sim.conditions = <<>>
    /\ sim.required = <<"4", ".", "1", "0">>
    /\ ~Parse(sim.version.v).valid
    /\ sim.ok

\* the dotted text v names a release: every segment is a run of digits
Dotted(v) ==
    \A k \in 1..Len(Split(v, ".")) :
        /\ Split(v, ".")[k] # <<>>
        /\ \A n \in 1..Len(Split(v, ".")[k]) : Split(v, ".")[k][n] \in Digits

\* the number in segment k of the dotted text v, zero past its last segment
Segment(v, k) == IF k <= Len(Split(v, ".")) THEN IntOf(Split(v, ".")[k]) ELSE 0

\* v is the older of the two: at the first segment where they differ, its number is smaller
Older(v, w) ==
    \E k \in 1..(Len(v) + Len(w)) :
        /\ Segment(v, k) < Segment(w, k)
        /\ \A j \in 1..(k - 1) : Segment(v, j) = Segment(w, j)

\* the clause c holds for the version v, read number by number
ClauseHolds(v, c) ==
    /\ Dotted(v)
    /\ Dotted(c.ver)
    /\ CASE c.op = GE -> ~Older(v, c.ver)
         [] c.op = LE -> ~Older(c.ver, v)
         [] c.op = GT -> Older(c.ver, v)
         [] c.op = LT -> Older(v, c.ver)
         [] c.op = EQ -> ~Older(v, c.ver) /\ ~Older(c.ver, v)
         [] c.op = NE -> Older(v, c.ver) \/ Older(c.ver, v)

\* C12: validate_isaac_sim returns True exactly when every extracted clause
\* holds with the versions compared segment by segment as numbers, each operator
\* standing for its own comparison: 4.10 satisfies ">4.9", 4.9 does not satisfy
\* ">4.10".
SatisfiesIffEveryClauseNumeric ==
    Validated =>
        /\ sim.ok <=> \A k \in 1..Len(sim.conditions) : ClauseHolds(sim.version.v, sim.conditions[k])
        /\ (sim.version.v = <<"4", ".", "1", "0">> /\ sim.required = GT \o <<"4", ".", "9">>)
              => sim.ok
        /\ (sim.version.v = <<"4", ".", "9">> /\ sim.required = GT \o <<"4", ".", "1", "0">>)
              => ~sim.ok

\* 4.10 checked against ">4.9": the text "4.10" sorts before the text "4.9"
TenAfterNine ==
    /\ Validated
    /\ sim.version.v = <<"4", ".", "1", "0">>
    /\ sim.conditions = <<[op |-> GT, ver |-> <<"4", ".", "9">>]>>
    /\ StrLess(sim.version.v, sim.conditions[1].ver)
    /\ sim.ok

-----------------------------------------------------------------------------
(* The discovery of installations and the filter on the release requirement *)

\* isaac_sim_folders.setdefault(version, full_path): the first folder scanned stays
AssignIfAbsent(items, version, path) ==
    IF \E i \in 1..Len(items) : items[i].version = version
    THEN items
    ELSE Append(items, [version |-> version, path |-> path])

\* isaac_sim_folders[version] = full_path, the dict kept as the sequence of its
\* items: a key it holds keeps its place and takes the new value
Assign(items, version, path) ==
    IF \E i \in 1..Len(items) : items[i].version = version
    THEN [i \in 1..Len(items) |->
             IF items[i].version = version THEN [version |-> version, path |-> path]
             ELSE items[i]]
    ELSE Append(items, [version |-> version, path |-> path])

\* the loops of find_all_isaac_sim over the folders listing[k], listing[k+1], ...
RECURSIVE Collect(_, _, _, _)
Collect(fs, listing, k, items) ==
    IF k > Len(listing) THEN items
    ELSE LET version == check_isaac_sim(fs[listing[k]])
         IN  Collect(fs, listing, k + 1,
                     IF Truthy(version) THEN Assign(items, version.v, listing[k]) ELSE items)

\* sorted(items, key=lambda item: item[0], reverse=True): the keys are str
RECURSIVE SortedReverse(_)
SortedReverse(items) ==
    IF items = <<>> THEN <<>>
    ELSE LET top == CHOOSE i \in 1..Len(items) :
                        \A j \in 1..Len(items) :
                            j = i \/ StrLess(items[j].version, items[i].version)
         IN  <<items[top]>>
             \o SortedReverse([i \in 1..(Len(items) - 1) |->
                                  IF i < top THEN items[i] ELSE items[i + 1]])

\* find_all_isaac_sim(), os.listdir giving the folders in the order of listing
find_all_isaac_sim(fs, listing) == SortedReverse(Collect(fs, listing, 1, <<>>))

\* the dict comprehension of simulation_set over the items from index k on
RECURSIVE FilterValid(_, _, _, _)
FilterValid(fs, items, required, k) ==
    IF k > Len(items) THEN [kept |-> <<>>, exc |-> ""]
    ELSE LET r == validate_isaac_sim(fs[items[k].path], required)
             rest == FilterValid(fs, items, required, k + 1)
         IN  IF r.exc # "" THEN [kept |-> <<>>, exc |-> r.exc]
             ELSE IF rest.exc # "" THEN rest
             ELSE [kept |-> (IF r.ok THEN <<items[k]>> ELSE <<>>) \o rest.kept, exc |-> ""]

\* contents of the VERSION file of a folder under a search root
FolderTexts ==
    { <<"4", ".", "9", "\n">>,
      <<"4", ".", "1", "0">>,
      <<"4", ".", "0", "\n">>,
      <<"4", ".", "2", "-", "r", "c", ".", "1", "\n">>,
      <<"l", "a", "t", "e", "s", "t">>,
      <<"\n">> }

\* a folder that may be an installation
MaybeInstalled == {BareFolder} \cup {Installed(text) : text \in FolderTexts}

\* a folder where each of the three names is a file, a directory or missing
AnyFolder ==
    {Installed(text) : text \in FolderTexts}
    \cup {[markers |-> f, text |-> <<"4", ".", "2", "\n">>] :
             f \in [Markers -> {"file", "dir", "absent"}] \ {[m \in Markers |-> "file"]}}

\* the orders os.listdir can give: the folders of ~/.local/share/ov/pkg come
\* before those of ~, as base_paths lists the roots
Listings ==
    { <<"ov/isaac-sim-a", "home/isaac-sim-a", "home/isaac-sim-4.9">>,
      <<"ov/isaac-sim-a", "home/isaac-sim-4.9", "home/isaac-sim-a">> }

\* the 'isaac_sim' entry of NANOSAUR_DISTRO_MAP for the release in use
ReleaseRequirements ==
    { GE \o <<"4", ".", "1">>,
      GE \o <<"4", ".", "0", ",", " ">> \o LT \o <<"4", ".", "1", "0">>,
      GT \o <<"5">>,
      <<>> }

InitDiscovery ==
    /\ store = "none"
    /\ params_dict = EmptyDict
    /\ default_params = EmptyDict
    /\ attrs = EmptyDict
    /\ params_file = NoPath
    /\ file = AbsentFile
    /\ saved = [valid |-> FALSE, dict |-> EmptyDict]
    /\ nops = 0
    /\ last = NoOp
    /\ \E a \in MaybeInstalled, b \in MaybeInstalled, c \in AnyFolder :
          isaac = [p \in FolderSet |->
                      CASE p = "ov/isaac-sim-a" -> a
                        [] p = "home/isaac-sim-a" -> b
                        [] p = "home/isaac-sim-4.9" -> c]
    /\ sim = IdleSim
    /\ dock = IdleDock
    /\ host = IdleHost

NoChange == [path |-> "", marker |-> ""]

\* what another process may do to the folders between the scan and the filter:
\* nothing, or delete one of the three files of a folder
Changes == {NoChange} \cup {[path |-> p, marker |-> m] : p \in FolderSet, m \in Markers}

Changed(fs, change) ==
    IF change = NoChange THEN fs
    ELSE [fs EXCEPT ![change.path].markers[change.marker] = "absent"]

\* simulation_set, from find_all_isaac_sim() to the filter on the requirement
\* (simulation.py:364 and 382-384)
Discover(listing, required, change) ==
    /\ sim = IdleSim
    /\ IF change = NoChange THEN TRUE
       ELSE isaac[change.path].markers[change.marker] = "file"
    /\ \E found \in {find_all_isaac_sim(isaac, listing)} :
       \E fs \in {Changed(isaac, change)} :
       \E r \in {FilterValid(fs, found, required, 1)} :
          /\ isaac' = fs
          /\ sim' = [IdleSim EXCEPT !.op = "simulation_set",
                                    !.required = required,
                                    !.conditions = FindAll(required, 1),
                                    !.seen = isaac,
                                    !.found = found,
                                    !.kept = r.kept,
                                    !.ok = r.exc = "",
                                    !.exc = r.exc]
    /\ UNCHANGED <<dock, host>>
    /\ UNCHANGED storeVars

NextDiscovery ==
    \E listing \in Listings, required \in ReleaseRequirements, change \in Changes :
        Discover(listing, required, change)

SpecDiscovery == InitDiscovery /\ [][NextDiscovery]_vars

Discovered == sim.op = "simulation_set"

\* the folder at path is among the candidates found
Found(path) == \E i \in 1..Len(sim.found) : sim.found[i].path = path

\* C13: find_all_isaac_sim returns a folder only if VERSION, isaac-sim.sh and
\* python.sh all exist in it as files: a folder where any of the three is
\* missing, or is no file, is not among the candidates.
MarkersRequired ==
    Discovered =>
        \A p \in FolderSet :
            (\E m \in Markers : sim.seen[p].markers[m] # "file") => ~Found(p)

\* a scan that found an installation and passed over a folder that has VERSION
\* and isaac-sim.sh but no python.sh
SkippedFolderWithoutPythonScript ==
    /\ Discovered
    /\ sim.found # <<>>
    /\ sim.seen["home/isaac-sim-4.9"].markers =
           [m \in Markers |-> IF m = "python.sh" THEN "absent" ELSE "file"]
    /\ ~Found("home/isaac-sim-4.9")

\* C14: the candidates find_all_isaac_sim returns are in descending order of
\* version, the versions compared segment by segment as numbers: of two entries,
\* the one listed first has the greater version.
VersionDescending ==
    Discovered =>
        \A i, j \in 1..Len(sim.found) :
            (i < j /\ Dotted(sim.found[i].version) /\ Dotted(sim.found[j].version))
                => Older(sim.found[j].version, sim.found[i].version)

\* the version check_isaac_sim read in the folder at path during the scan
VersionAt(path) == check_isaac_sim(sim.seen[path])

\* C15: when an installation under ~/.local/share/ov/pkg and one under ~ report
\* the same version, find_all_isaac_sim returns one entry for that version, and
\* its path is a folder under ~ that reports this version.
SameVersionHomeWins ==
    ( /\ Discovered
      /\ Truthy(VersionAt("ov/isaac-sim-a"))
      /\ \E p \in FolderSet \ {"ov/isaac-sim-a"} : VersionAt(p) = VersionAt("ov/isaac-sim-a") )
    =>
        /\ Cardinality({i \in 1..Len(sim.found) :
                           sim.found[i].version = VersionAt("ov/isaac-sim-a").v}) = 1
        /\ \A i \in 1..Len(sim.found) :
               sim.found[i].version = VersionAt("ov/isaac-sim-a").v
                   => /\ sim.found[i].path # "ov/isaac-sim-a"
                      /\ VersionAt(sim.found[i].path) = VersionAt("ov/isaac-sim-a")

\* 4.10 installed under both roots: the entry found is the folder under ~
SameVersionUnderBothRoots ==
    /\ Discovered
    /\ VersionAt("ov/isaac-sim-a").v = <<"4", ".", "1", "0">>
    /\ VersionAt("home/isaac-sim-a").v = <<"4", ".", "1", "0">>
    /\ \E i \in 1..Len(sim.found) :
           sim.found[i] = [version |-> <<"4", ".", "1", "0">>, path |-> "home/isaac-sim-a"]

\* the candidate c is among those the filter kept
Kept(c) == \E k \in 1..Len(sim.kept) : sim.kept[k] = c

\* C16: the filter of simulation_set raises nothing and keeps exactly the
\* candidates whose folder still has the three files and whose version satisfies every
\* clause of the requirement; over 4.0 and 4.2 with ">=4.1" it keeps 4.2 alone,
\* and it gives an empty mapping when no candidate satisfies.
FilterKeepsCompatible ==
    Discovered =>
        /\ sim.exc = ""
        /\ \A k \in 1..Len(sim.kept) : \E i \in 1..Len(sim.found) : sim.found[i] = sim.kept[k]
        /\ \A i \in 1..Len(sim.found) :
               Kept(sim.found[i])
                   <=> /\ \A m \in Markers : isaac[sim.found[i].path].markers[m] = "file"
                       /\ \A n \in 1..Len(sim.conditions) :
                              ClauseHolds(sim.found[i].version, sim.conditions[n])

-----------------------------------------------------------------------------
(* Compose orchestration: src/nanosaur/docker.py *)

\* how a call of the compose client ends
ComposeResults == {"ok", "DockerException", "KeyboardInterrupt"}

Called(name, res) == [name |-> name, res |-> res]

\* build_env_file(params): the environment file is written anew
EnvFile == Called("build_env_file", "ok")

\* args.profile when the command line names none
NoProfile == "None"

\* args.profile: none, a name given to 'robot start', or what nanosaur_wake_up
\* derives from the simulation tool ('' when none is selected)
Profiles == {NoProfile, "", "nav", "isaac-sim"}

\* an entry the 'simulation' block does not have
NoTool == ""

\* the {} that params.get('simulation', {}) gives when there is no block
EmptyBlock == Dict(NoTool, NoTool, NoTool)

Outcome(calls, profiles, ret, exc, said) ==
    [calls |-> calls, profiles |-> profiles, ret |-> ret, exc |-> exc, said |-> said]

\* try: ... except DockerException: return False, a compose call having ended
\* with res: any other exception leaves the function
Excepted(calls, profiles, res) ==
    IF res = "DockerException" THEN Outcome(calls, profiles, "False", "", "")
    ELSE Outcome(calls, profiles, "None", res, "")

\* docker_robot_start with the environment file written after compose up
RobotStartEnvLast(simulated, hasSimulation, profile, detach, up, rm) ==
    Outcome(<<Called("up", up), EnvFile>>, <<>>, IF up = "ok" THEN "None" ELSE "False", "", "")

\* docker_robot_start with the cleanup in a finally clause
RobotStartCleanupAlways(simulated, hasSimulation, profile, detach, up, rm) ==
    Outcome(<<EnvFile, Called("up", up), Called("rm", rm)>>,
            IF profile \in {NoProfile, ""} THEN <<>> ELSE <<profile>>,
            IF up = "ok" /\ rm = "ok" THEN "None" ELSE "False", "", "")

\* docker_robot_start without the check of the simulation block
RobotStartUnguarded(simulated, hasSimulation, profile, detach, up, rm) ==
    IF up # "ok" THEN Excepted(<<EnvFile, Called("up", up)>>, <<>>, up)
    ELSE Outcome(<<EnvFile, Called("up", up)>>, <<>>, "None", "", "")

\* docker_robot_start(platform, params, args)
RobotStartRun(simulated, hasSimulation, profile, detach, up, rm) ==
    IF simulated /\ ~hasSimulation THEN Outcome(<<>>, <<>>, "False", "", "")
    ELSE LET compose_profiles == IF profile \in {NoProfile, ""} THEN <<>> ELSE <<profile>>
         IN  IF up # "ok"
             THEN Excepted(<<EnvFile, Called("up", up)>>, compose_profiles, up)
             ELSE IF detach
             THEN Outcome(<<EnvFile, Called("up", up)>>, compose_profiles, "None", "", "")
             ELSE IF rm # "ok"
             THEN Excepted(<<EnvFile, Called("up", up), Called("rm", rm)>>, compose_profiles, rm)
             ELSE Outcome(<<EnvFile, Called("up", up), Called("rm", rm)>>, compose_profiles,
                          "None", "", "")

\* docker_simulator_start(platform, params, args), simulation_data being the
\* value of params.get('simulation', {})
SimulatorStartRun(simulation_data, up, rm) ==
    IF simulation_data.v = NoTool
    THEN Outcome(<<>>, <<>>, "None", "KeyError", "")
    ELSE IF up # "ok"
    THEN Excepted(<<EnvFile, Called("up", up)>>, <<>>, up)
    ELSE IF rm # "ok"
    THEN Excepted(<<EnvFile, Called("up", up), Called("rm", rm)>>, <<>>, rm)
    ELSE Outcome(<<EnvFile, Called("up", up), Called("rm", rm)>>, <<>>, "None", "", "")

\* docker_pull_images(platform, params, args)
PullImagesRun(machine, pull) ==
    LET compose_profiles == <<IF machine = "aarch64" THEN "robot" ELSE "desktop">>
    IN  IF pull # "ok" THEN Excepted(<<EnvFile, Called("pull", pull)>>, compose_profiles, pull)
        ELSE Outcome(<<EnvFile, Called("pull", pull)>>, compose_profiles, "True", "", "")

\* docker_service_run_command(platform, params, service, ...)
ServiceRunCommandRun(run) ==
    IF run # "ok" THEN Excepted(<<EnvFile, Called("run", run)>>, <<>>, run)
    ELSE Outcome(<<EnvFile, Called("run", run)>>, <<>>, "True", "", "")

\* docker_robot_stop that brings the project down without asking for the services
RobotStopAlwaysDown(running, ps, down) ==
    Outcome(<<Called("down", down)>>, <<>>, "None", IF down = "ok" THEN "" ELSE down,
            IF down = "ok" THEN "stopped" ELSE "")

\* docker_robot_stop(platform, params, args), running telling whether
\* compose.ps() lists a service
RobotStopRun(running, ps, down) ==
    IF ps # "ok" THEN Outcome(<<Called("ps", ps)>>, <<>>, "None", ps, "")
    ELSE IF ~running THEN Outcome(<<Called("ps", ps)>>, <<>>, "None", "", "not running")
    ELSE IF down # "ok"
    THEN Outcome(<<Called("ps", ps), Called("down", down)>>, <<>>, "None", down, "")
    ELSE Outcome(<<Called("ps", ps), Called("down", down)>>, <<>>, "None", "", "stopped")

\* the call name was made and returned
Returned(calls, name) == \E i \in 1..Len(calls) : calls[i] = Called(name, "ok")

\* whether the project has live services after the calls
RunningAfter(calls, detach, running) ==
    IF Returned(calls, "down") THEN FALSE
    ELSE IF Returned(calls, "up") THEN detach
    ELSE running

\* the orchestration op ran with outcome r
DockAfter(op, machine, simulated, profile, detach, r) ==
    [op |-> op, machine |-> machine, simulated |-> simulated,
     configured |-> Contains("simulation"), calls |-> r.calls, profile |-> profile,
     profiles |-> r.profiles, detach |-> detach, ret |-> r.ret, exc |-> r.exc,
     said |-> r.said, before |-> dock.running,
     running |-> RunningAfter(r.calls, detach, dock.running)]

Orchestrated(op, machine, simulated, profile, detach, r) ==
    /\ dock' = DockAfter(op, machine, simulated, profile, detach, r)
    /\ UNCHANGED <<isaac, sim, host>>
    /\ UNCHANGED storeVars

RobotStart(machine, simulated, profile, detach, up, rm) ==
    /\ store = "live"
    /\ \E r \in {RobotStartRun(simulated, Contains("simulation"), profile, detach, up, rm)} :
          Orchestrated("docker_robot_start", machine, simulated, profile, detach, r)

SimulatorStart(machine, up, rm) ==
    /\ store = "live"
    /\ \E r \in {SimulatorStartRun(Get("simulation", EmptyBlock), up, rm)} :
          Orchestrated("docker_simulator_start", machine, FALSE, NoProfile, FALSE, r)

PullImages(machine, pull) ==
    /\ store = "live"
    /\ \E r \in {PullImagesRun(machine, pull)} :
          Orchestrated("docker_pull_images", machine, FALSE, NoProfile, FALSE, r)

ServiceRunCommand(machine, run) ==
    /\ store = "live"
    /\ \E r \in {ServiceRunCommandRun(run)} :
          Orchestrated("docker_service_run_command", machine, FALSE, NoProfile, FALSE, r)

RobotStop(machine, ps, down) ==
    /\ store = "live"
    /\ \E r \in {RobotStopRun(dock.running, ps, down)} :
          Orchestrated("docker_robot_stop", machine, FALSE, NoProfile, FALSE, r)

\* platform['Machine']
Machines == {"aarch64", "x86_64"}

\* parameter files the orchestration can find: no simulation block, one that
\* names a tool, one that names none
DockerFiles ==
    { [kind |-> "map", entries |-> <<[key |-> "mode", style |-> "plain", text |-> "simple"]>>],
      [kind |-> "map", entries |-> <<DumpScalar("simulation", Dict("isaac-sim", "docker", NoTool))>>],
      [kind |-> "map", entries |-> <<DumpScalar("simulation", EmptyBlock)>>] }

InitDocker ==
    /\ store = "none"
    /\ params_dict = EmptyDict
    /\ default_params = EmptyDict
    /\ attrs = EmptyDict
    /\ params_file = NoPath
    /\ file \in DockerFiles
    /\ saved = [valid |-> FALSE, dict |-> EmptyDict]
    /\ nops = 0
    /\ last = NoOp
    /\ isaac = NoIsaac
    /\ sim = IdleSim
    /\ \E running \in BOOLEAN : dock = [IdleDock EXCEPT !.running = running]
    /\ host = IdleHost

NextDocker ==
    \/ Load(EmptyDict, FilePath)
    \/ Exit
    \/ \E machine \in Machines, simulated \in BOOLEAN, profile \in Profiles, detach \in BOOLEAN,
          up \in ComposeResults :
       \E rm \in (IF up = "ok" /\ ~detach THEN ComposeResults ELSE {"ok"}) :
          RobotStart(machine, simulated, profile, detach, up, rm)
    \/ \E machine \in Machines, up \in ComposeResults :
       \E rm \in (IF up = "ok" THEN ComposeResults ELSE {"ok"}) :
          SimulatorStart(machine, up, rm)
    \/ \E machine \in Machines, pull \in ComposeResults : PullImages(machine, pull)
    \/ \E machine \in Machines, run \in ComposeResults : ServiceRunCommand(machine, run)
    \/ \E machine \in Machines, ps \in ComposeResults, down \in ComposeResults :
          RobotStop(machine, ps, down)

SpecDocker == InitDocker /\ [][NextDocker]_vars

\* the operations of the compose client
ComposeNames == {"up", "rm", "pull", "run", "ps", "down"}

\* the places of the calls of name in the call order
Places(calls, name) == {i \in 1..Len(calls) : calls[i].name = name}

ReachedCompose == \E i \in 1..Len(dock.calls) : dock.calls[i].name \in ComposeNames

\* C17: when docker_robot_start, docker_pull_images, docker_service_run_command
\* or docker_simulator_start reaches the compose tool, the environment file was
\* written first, before any compose call; docker_robot_start calls compose up
\* exactly once, and with no profile given it hands the client an empty profile
\* list.
EnvFileBeforeCompose ==
    ( /\ dock.op \in {"docker_robot_start", "docker_pull_images",
                      "docker_service_run_command", "docker_simulator_start"}
      /\ ReachedCompose )
    =>
        /\ dock.calls[1] = EnvFile
        /\ Places(dock.calls, "build_env_file") = {1}
        /\ dock.op = "docker_robot_start"
              => /\ Cardinality(Places(dock.calls, "up")) = 1
                 /\ dock.profile = NoProfile => dock.profiles = <<>>

\* a start with no profile whose compose up failed: one up, after the environment file
FailedUpNotRetried ==
    /\ dock.op = "docker_robot_start"
    /\ dock.profile = NoProfile
    /\ dock.profiles = <<>>
    /\ dock.calls = <<EnvFile, Called("up", "DockerException")>>

\* C18: docker_robot_stop asks compose for the live services first; when there
\* are none it reports 'not running' and calls compose down not at all, when
\* there are some it calls compose down exactly once.
StopChecksServicesFirst ==
    dock.op = "docker_robot_stop" =>
        /\ dock.calls # <<>>
        /\ dock.calls[1].name = "ps"
        /\ dock.calls[1].res = "ok"
              => IF dock.before
                 THEN Places(dock.calls, "down") = {2}
                 ELSE Places(dock.calls, "down") = {} /\ dock.said = "not running"

\* a stop that found no live service
StoppedNothing ==
    /\ dock.op = "docker_robot_stop"
    /\ ~dock.before
    /\ dock.calls = <<Called("ps", "ok")>>
    /\ dock.said = "not running"

\* C19: whenever a compose call of an orchestration (up, rm, pull, run, ps, down)
\* fails, the orchestration raises nothing, returns False, and leaves the
\* configuration as it was, in memory and on disk.
ComposeFailureReported ==
    [][ ( /\ dock' # dock
          /\ \E i \in 1..Len(dock'.calls) : dock'.calls[i].res = "DockerException" )
        => /\ dock'.exc = ""
           /\ dock'.ret = "False"
           /\ UNCHANGED <<params_dict, attrs, file>> ]_vars

\* C20: docker_robot_start calls compose rm exactly when compose up was called
\* without detach and returned; then rm is the call that follows up. It is not
\* called when up failed or when detach is set.
CleanupIffForegroundUpReturned ==
    dock.op = "docker_robot_start" =>
        /\ Places(dock.calls, "rm") # {} <=> (Returned(dock.calls, "up") /\ ~dock.detach)
        /\ \A i \in Places(dock.calls, "rm") : i > 1 /\ dock.calls[i - 1] = Called("up", "ok")
        /\ Cardinality(Places(dock.calls, "rm")) <= 1

\* a foreground start that ran to its end and cleaned up
ForegroundStartCleanedUp ==
    /\ dock.op = "docker_robot_start"
    /\ ~dock.detach
    /\ dock.calls = <<EnvFile, Called("up", "ok"), Called("rm", "ok")>>

\* every compose call of the orchestration returned
AllReturned == \A i \in 1..Len(dock.calls) : dock.calls[i].res = "ok"

\* C21: docker_robot_start and docker_simulator_start return a value that is
\* true exactly when compose up, and the cleanup after it, completed without
\* error, and False otherwise.
ReturnTellsSuccess ==
    (dock.op \in {"docker_robot_start", "docker_simulator_start"} /\ dock.exc = "")
        => IF ReachedCompose /\ AllReturned THEN dock.ret = "True" ELSE dock.ret = "False"

\* C22: an interrupt during a compose call of docker_robot_start or
\* docker_simulator_start is caught: the function raises nothing and returns
\* False.
InterruptBecomesFailure ==
    ( /\ dock.op \in {"docker_robot_start", "docker_simulator_start"}
      /\ \E i \in 1..Len(dock.calls) : dock.calls[i].res = "KeyboardInterrupt" )
    => (dock.exc = "" /\ dock.ret = "False")

\* the profile of the device type: 'robot' on aarch64, 'desktop' elsewhere
DeviceProfile(machine) == IF machine = "aarch64" THEN "robot" ELSE "desktop"

\* C25: docker_robot_start and docker_pull_images hand the compose client a
\* profile list of at most one entry, and the profile they use is the one of
\* the device type: 'robot' when Machine is aarch64, 'desktop' otherwise.
ProfileFromPlatform ==
    (dock.op \in {"docker_robot_start", "docker_pull_images"} /\ ReachedCompose)
        => /\ Len(dock.profiles) <= 1
           /\ \A i \in 1..Len(dock.profiles) : dock.profiles[i] = DeviceProfile(dock.machine)

\* C29: when the robot is simulated and the configuration has no simulation
\* block, docker_robot_start returns False, writes no environment file and
\* makes no compose call.
SimulatedWithoutBlockRefused ==
    (dock.op = "docker_robot_start" /\ dock.simulated /\ ~dock.configured)
        => (dock.ret = "False" /\ dock.exc = "" /\ dock.calls = <<>>)

\* a simulated robot started on a configuration without a simulation block
RefusedSimulatedStart ==
    /\ dock.op = "docker_robot_start"
    /\ dock.simulated
    /\ ~dock.configured
    /\ store = "live"
    /\ ~Contains("simulation")
    /\ dock.ret = "False"
    /\ dock.calls = <<>>

\* C27: after an item assignment store[key] = value on a store whose parameter
\* file exists, the file holds the mapping the store has in memory: loading it
\* again gives the current mapping, also when the key was changed and then
\* assigned its loaded value again.
FileEqualsMappingAfterSetItem ==
    ( /\ store = "live"
      /\ last.op = "setitem"
      /\ params_file # NoPath
      /\ last.preFile.kind = "map" )
    =>
        /\ file.kind = "map"
        /\ ParseMap(file) = params_dict

-----------------------------------------------------------------------------
(* simulation set, simulation start and simulation info *)

\* the keys of simulation_tools
simulation_tools == {"isaac-sim", "gazebo"}

\* str.capitalize() on the names a block can hold under 'tool'
Capitalize(tool) ==
    CASE tool = "isaac-sim" -> "Isaac-sim"
      [] tool = "gazebo" -> "Gazebo"
      [] tool = "unity" -> "Unity"
      [] OTHER -> tool

\* str.lower() on the choices of the 'tool' question
Lower(name) ==
    CASE name = "Isaac-sim" -> "isaac-sim"
      [] name = "Gazebo" -> "gazebo"
      [] OTHER -> name

\* isaac_sim_path.split("isaac-sim-")[-1]
NameVersion(path) ==
    CASE path = "ov/isaac-sim-a" -> <<"a">>
      [] path = "home/isaac-sim-a" -> <<"a">>
      [] path = "home/isaac-sim-4.9" -> <<"4", ".", "9">>

\* an answer that is a str
Answer(text) == [t |-> "str", v |-> text]

\* the last choice of the 'isaac-sim' question
CustomPath == Answer(<<"C", "u", "s", "t", "o", "m", " ", "P", "a", "t", "h">>)

\* the folder a path names: one that is not there holds none of the files
FolderAt(fs, path) == IF path \in DOMAIN fs THEN fs[path] ELSE BareFolder

\* isaac_sim_list[version], the dict being the sequence of its items
Lookup(items, version) ==
    IF \E i \in 1..Len(items) : items[i].version = version
    THEN [exc |-> "", path |-> items[CHOOSE i \in 1..Len(items) : items[i].version = version].path]
    ELSE [exc |-> "KeyError", path |-> ""]

\* what simulation_set hands back: the value returned or the exception raised,
\* simulation_data at that point, whether lines 419-420 wrote into it, whether
\* params['simulation'] was assigned, and the defaults and answers of the prompts
SetOutcome(ret, exc, block, changed, stored, defaults, answers, said) ==
    [ret |-> ret, exc |-> exc, block |-> block, changed |-> changed, stored |-> stored,
     defaults |-> defaults, answers |-> answers, said |-> said]

\* simulation_set(platform, params, args): simulation_data is the value of
\* params.get('simulation', {}), ws_debug the value of params['ws_debug'] ("" when
\* the key is absent), filtered what the filter on the requirement gave for the
\* installations found, pick what the user chooses at each question that is asked
SimulationSetRun(simulation_data, ws_debug, ros2_installed, fs, filtered, required, pick) ==
    LET current_tool == Capitalize(simulation_data.v)
        current_version ==
            IF simulation_data.isaac_sim_path # ""
            THEN Answer(NameVersion(simulation_data.isaac_sim_path))
            ELSE Unanswered
        debug_mode == IF ~ros2_installed THEN "docker" ELSE ws_debug
        isaac_sim_list == filtered.kept
        default_location ==
            IF simulation_data.location # "" THEN simulation_data.location ELSE debug_mode
        defaults == [location |-> default_location, tool |-> current_tool,
                     version |-> current_version, custom |-> ""]
        location == IF debug_mode # "" THEN default_location ELSE pick.location
        tool == pick.tool
        version ==
            IF tool # "Isaac-sim" \/ isaac_sim_list = <<>> \/ location = "docker"
               \/ debug_mode = "docker"
            THEN current_version
            ELSE IF pick.version = "first" THEN Answer(isaac_sim_list[1].version)
            ELSE CustomPath
        custom == IF version # CustomPath THEN "" ELSE pick.custom
        answers == [location |-> location, tool |-> tool, version |-> version,
                    custom |-> custom]
        written == [simulation_data EXCEPT !.location = location, !.v = Lower(tool)]
    IN  IF filtered.exc # ""
        THEN SetOutcome("None", filtered.exc, simulation_data, FALSE, FALSE,
                        NoAnswers, NoAnswers, "")
        ELSE IF pick.cancel
        THEN SetOutcome("False", "", simulation_data, FALSE, FALSE, defaults, NoAnswers, "")
        ELSE IF location # "host"
        THEN SetOutcome("True", "", written, TRUE, TRUE, defaults, answers, "Selected")
        ELSE IF Lower(tool) # "isaac-sim" \/ version = Unanswered
        THEN SetOutcome("True", "", written, TRUE, TRUE, defaults, answers, "")
        ELSE IF version = CustomPath
        THEN IF ~Truthy(check_isaac_sim(FolderAt(fs, custom)))
             THEN SetOutcome("False", "", written, TRUE, FALSE, defaults, answers,
                             "Invalid Isaac Sim path")
             ELSE IF validate_isaac_sim(FolderAt(fs, custom), required).exc # ""
             THEN SetOutcome("None", validate_isaac_sim(FolderAt(fs, custom), required).exc,
                             written, TRUE, FALSE, defaults, answers, "")
             ELSE SetOutcome("True", "", [written EXCEPT !.isaac_sim_path = custom],
                             TRUE, TRUE, defaults, answers, "Selected Isaac Sim version")
        ELSE IF Lookup(isaac_sim_list, version.v).exc # ""
        THEN SetOutcome("None", "KeyError", written, TRUE, FALSE, defaults, answers, "")
        ELSE SetOutcome("True", "", [written EXCEPT !.isaac_sim_path =
                                        Lookup(isaac_sim_list, version.v).path],
                        TRUE, TRUE, defaults, answers, "Selected Isaac Sim version")

\* simulation_start_debug(simulation_ws_path, simulation_tool, params): launch
\* tells whether install/setup.bash is there and how the child process ended
HostLaunches == {"not built", "0", "1", "KeyboardInterrupt", "OSError"}

simulation_start_debug(launch) ==
    IF launch = "not built" THEN [ret |-> "False", exc |-> "", said |-> "Workspace not built"]
    ELSE IF launch = "0" THEN [ret |-> "True", exc |-> "", said |-> ""]
    ELSE IF launch = "OSError" THEN [ret |-> "False", exc |-> "", said |-> "An error occurred"]
    ELSE [ret |-> "False", exc |-> "", said |-> ""]

\* simulation_start(platform, params, args): the step it reached, what it
\* returned or raised, and the compose calls it made
StartOutcome(reached, ret, exc, said, calls) ==
    [reached |-> reached, ret |-> ret, exc |-> exc, said |-> said, calls |-> calls]

SimulationStartRun(simulation_data, launch, up, rm) ==
    IF simulation_data.v = ""
    THEN StartOutcome("tool", "False", "", "No simulation tool selected", <<>>)
    ELSE IF simulation_data.v \notin simulation_tools
    THEN StartOutcome("known", "False", "", "Unknown simulation tool", <<>>)
    ELSE IF simulation_data.v = "isaac-sim" /\ simulation_data.isaac_sim_path = ""
    THEN StartOutcome("version", "False", "", "No Isaac Sim version selected", <<>>)
    ELSE IF simulation_data.location = ""
    THEN StartOutcome("location", "None", "KeyError", "", <<>>)
    ELSE IF simulation_data.location = "host"
    THEN LET r == simulation_start_debug(launch)
         IN  StartOutcome("launch", r.ret, r.exc, r.said, <<>>)
    ELSE IF simulation_data.location = "docker"
    THEN LET r == SimulatorStartRun(simulation_data, up, rm)
         IN  StartOutcome("launch", r.ret, r.exc, r.said, r.calls)
    ELSE StartOutcome("location", "False", "", "Unknown debug mode", <<>>)

\* the version simulation_info reads from the VERSION file of the selected path
InfoVersion(fs, simulation_data) ==
    IF /\ simulation_data.isaac_sim_path # ""
       /\ simulation_data.v = "isaac-sim"
       /\ FolderAt(fs, simulation_data.isaac_sim_path).markers["VERSION"] = "file"
    THEN Split(Strip(FolderAt(fs, simulation_data.isaac_sim_path).text), "-")[1]
    ELSE <<>>

\* simulation_info(platform, params, verbose): what it prints about the selection
SimulationInfoRun(simulation_data, fs, listing, gazebo_installed, machine, verbose) ==
    IF find_all_isaac_sim(fs, listing) = <<>> /\ ~gazebo_installed
    THEN [ret |-> "None", said |-> "No simulation tools installed", version |-> <<>>]
    ELSE [ret |-> IF verbose THEN "False" ELSE "None",
          said |-> IF simulation_data.v # "" THEN "selected"
                   ELSE IF machine # "aarch64" THEN "No simulation tool selected"
                   ELSE "",
          version |-> IF simulation_data.v # "" THEN InfoVersion(fs, simulation_data)
                      ELSE <<>>]

\* the block without its isaac_sim_path entry; sim.clean records what the same
\* call, with the same inputs, gives on that block
Scrubbed(simulation_data) == [simulation_data EXCEPT !.isaac_sim_path = ""]

\* what the user picks at each question that is asked, or Ctrl-C
CancelPick == [cancel |-> TRUE, location |-> "docker", tool |-> "Isaac-sim",
               version |-> "first", custom |-> "ov/isaac-sim-a"]

Picks ==
    {CancelPick}
    \cup [cancel : {FALSE}, location : {"docker", "host"}, tool : {"Isaac-sim", "Gazebo"},
          version : {"first", "custom"}, custom : {"ov/isaac-sim-a", "home/isaac-sim-4.9"}]

\* the value of params['ws_debug'], "" when the key is absent
DebugMode == IF Contains("ws_debug") THEN params_dict["ws_debug"].v ELSE ""

\* the command a process runs on the store it has just loaded
Fresh == Running /\ last.op = "load"

\* nanosaur simulation set
SimulationSet(ros2_installed, gazebo_installed, listing, required) ==
    /\ Fresh
    /\ \E simulation_data \in {Get("simulation", EmptyBlock)} :
       \E found \in {find_all_isaac_sim(isaac, listing)} :
       \E filtered \in {FilterValid(isaac, found, required, 1)} :
       \E pick \in {p \in Picks : gazebo_installed \/ p.tool # "Gazebo"} :
       \E r \in {SimulationSetRun(simulation_data, DebugMode, ros2_installed, isaac,
                                  filtered, required, pick)} :
       \E c \in {SimulationSetRun(Scrubbed(simulation_data), DebugMode, ros2_installed,
                                  isaac, filtered, required, pick)} :
       \E held \in {r.changed /\ "simulation" \in DOMAIN attrs} :
       \E d \in {IF r.stored \/ (held /\ Contains("simulation"))
                 THEN DictSet(params_dict, "simulation", r.block) ELSE params_dict} :
          /\ params_dict' = d
          /\ attrs' = IF r.stored \/ held THEN DictSet(attrs, "simulation", r.block)
                      ELSE attrs
          /\ file' = IF r.stored THEN SaveFile(params_file, d, default_params, file)
                     ELSE file
          /\ saved' = IF r.stored THEN SavedAfter(params_file, d, default_params)
                      ELSE saved
          /\ last' = Done("simulation_set", "simulation", r.block, NoneVal, r.exc,
                          IF r.stored /\ SaveWrites(params_file, d, default_params)
                          THEN 1 ELSE 0)
          /\ sim' = [IdleSim EXCEPT !.op = "simulation_set",
                                    !.required = required,
                                    !.seen = isaac,
                                    !.found = found,
                                    !.kept = filtered.kept,
                                    !.ok = r.exc = "",
                                    !.exc = r.exc,
                                    !.ret = r.ret,
                                    !.block = simulation_data,
                                    !.after = r.block,
                                    !.defaults = r.defaults,
                                    !.answers = r.answers,
                                    !.changed = r.changed,
                                    !.stored = r.stored,
                                    !.said = r.said,
                                    !.clean = Visible(c.ret, c.exc, c.defaults, c.answers,
                                                      c.said, c.block)]
    /\ nops' = nops + 1
    /\ UNCHANGED <<store, default_params, params_file>>
    /\ UNCHANGED <<isaac, dock, host>>

\* nanosaur simulation start
SimulationStart(machine, launch, up, rm) ==
    /\ Fresh
    /\ \E simulation_data \in {Get("simulation", EmptyBlock)} :
       \E r \in {SimulationStartRun(simulation_data, launch, up, rm)} :
       \E c \in {SimulationStartRun(Scrubbed(simulation_data), launch, up, rm)} :
          /\ sim' = [IdleSim EXCEPT !.op = "simulation_start",
                                    !.exc = r.exc,
                                    !.ret = r.ret,
                                    !.block = simulation_data,
                                    !.after = simulation_data,
                                    !.reached = r.reached,
                                    !.said = r.said,
                                    !.clean = Visible(c.ret, c.exc, NoAnswers, NoAnswers,
                                                    c.said, Scrubbed(simulation_data))]
          /\ dock' = IF r.reached = "launch" /\ simulation_data.location = "docker"
                     THEN DockAfter("docker_simulator_start", machine, FALSE, NoProfile,
                                    FALSE, SimulatorStartRun(simulation_data, up, rm))
                     ELSE dock
    /\ nops' = nops + 1
    /\ last' = Done("simulation_start", "simulation", NoneVal, NoneVal, "", 0)
    /\ UNCHANGED <<store, params_dict, default_params, attrs, params_file, file, saved>>
    /\ UNCHANGED <<isaac, host>>

\* nanosaur simulation (the information about the selection)
SimulationInfo(listing, gazebo_installed, machine, verbose) ==
    /\ Fresh
    /\ \E simulation_data \in {Get("simulation", EmptyBlock)} :
       \E r \in {SimulationInfoRun(simulation_data, isaac, listing, gazebo_installed,
                                   machine, verbose)} :
       \E c \in {SimulationInfoRun(Scrubbed(simulation_data), isaac, listing,
                                   gazebo_installed, machine, verbose)} :
          sim' = [IdleSim EXCEPT !.op = "simulation_info",
                                 !.ret = r.ret,
                                 !.block = simulation_data,
                                 !.after = simulation_data,
                                 !.version = Answer(r.version),
                                 !.answers = [NoAnswers EXCEPT !.version = Answer(r.version)],
                                 !.said = r.said,
                                 !.clean = Visible(c.ret, "", NoAnswers,
                                                   [NoAnswers EXCEPT !.version = Answer(c.version)],
                                                   c.said, Scrubbed(simulation_data))]
    /\ nops' = nops + 1
    /\ last' = Done("simulation_info", "simulation", NoneVal, NoneVal, "", 0)
    /\ UNCHANGED <<store, params_dict, default_params, attrs, params_file, file, saved>>
    /\ UNCHANGED <<isaac, dock, host>>

\* parameter files the simulation commands can find: none, one without a
\* simulation block, and blocks that select a tool, with and without a path
SimulationFiles ==
    { AbsentFile,
      [kind |-> "map", entries |-> <<[key |-> "ws_debug", style |-> "plain", text |-> "host"]>>],
      [kind |-> "map", entries |-> <<DumpScalar("simulation", Dict("gazebo", "docker", ""))>>],
      [kind |-> "map", entries |->
          <<DumpScalar("simulation", Dict("gazebo", "host", "home/isaac-sim-4.9"))>>],
      [kind |-> "map", entries |->
          <<DumpScalar("simulation", Dict("isaac-sim", "host", "home/isaac-sim-4.9"))>>],
      [kind |-> "map", entries |-> <<DumpScalar("simulation", Dict("unity", "host", ""))>>] }

\* what the search roots can hold: nothing, one installation, two of them, one
\* the release does not accept, and one whose VERSION file names no version
SimulationFolders ==
    { NoIsaac,
      [NoIsaac EXCEPT !["home/isaac-sim-4.9"] = Installed(<<"4", ".", "9", "\n">>)],
      [NoIsaac EXCEPT !["home/isaac-sim-4.9"] = Installed(<<"4", ".", "9", "\n">>),
                      !["ov/isaac-sim-a"] = Installed(<<"4", ".", "1", "0">>)],
      [NoIsaac EXCEPT !["home/isaac-sim-a"] = Installed(<<"4", ".", "0", "\n">>)],
      [NoIsaac EXCEPT !["home/isaac-sim-a"] = Installed(<<"l", "a", "t", "e", "s", "t">>)] }

\* the 'isaac_sim' entry of NANOSAUR_DISTRO_MAP for the release in use
SimulationRequirements == { GE \o <<"4", ".", "1">> }

InitSimulation ==
    /\ store = "none"
    /\ params_dict = EmptyDict
    /\ default_params = EmptyDict
    /\ attrs = EmptyDict
    /\ params_file = NoPath
    /\ file \in SimulationFiles
    /\ saved = [valid |-> FALSE, dict |-> EmptyDict]
    /\ nops = 0
    /\ last = NoOp
    /\ isaac \in SimulationFolders
    /\ sim = IdleSim
    /\ dock = IdleDock
    /\ host = IdleHost

NextSimulation ==
    \/ Load(EmptyDict, FilePath)
    \/ Exit
    \/ \E ros2_installed \in BOOLEAN, gazebo_installed \in BOOLEAN,
          required \in SimulationRequirements :
          SimulationSet(ros2_installed, gazebo_installed, Folders, required)
    \/ \E machine \in Machines, launch \in HostLaunches,
          up \in ComposeResults, rm \in ComposeResults :
          SimulationStart(machine, launch, up, rm)
    \/ \E gazebo_installed \in BOOLEAN, machine \in Machines, verbose \in BOOLEAN :
          SimulationInfo(Folders, gazebo_installed, machine, verbose)

SpecSimulation == InitSimulation /\ [][NextSimulation]_vars

\* a simulation command has just run
SimulationCommands == {"simulation_set", "simulation_start", "simulation_info"}

JustRan(op) == last.op = op /\ sim.op = op

\* C24: when simulation_set turns down a custom Isaac Sim path and returns
\* False, the configuration is as it was before the call: the mapping in memory,
\* the simulation block the store hands out (tool, location, isaac_sim_path) and
\* the file.
RejectionLeavesConfiguration ==
    ( /\ JustRan("simulation_set")
      /\ sim.ret = "False"
      /\ sim.said = "Invalid Isaac Sim path" )
    =>
        /\ params_dict = last.preDict
        /\ Get("simulation", EmptyBlock) = sim.block
        /\ file = last.preFile

\* C23: when the block selects a tool other than isaac-sim, simulation_set,
\* simulation_start and simulation_info behave as they do on the same block
\* without its isaac_sim_path: the same value returned, the same exception, the
\* same defaults and answers of the prompts, the same output, and the same block
\* left behind (but for the stale entry itself while the tool stays other than
\* isaac-sim).
StalePathNotRead ==
    ( /\ \E op \in SimulationCommands : JustRan(op)
      /\ sim.block.v # "isaac-sim" )
    =>
        /\ sim.ret = sim.clean.ret
        /\ sim.exc = sim.clean.exc
        /\ sim.defaults = sim.clean.defaults
        /\ sim.answers = sim.clean.answers
        /\ sim.said = sim.clean.said
        /\ IF sim.after.v = "isaac-sim" THEN sim.after = sim.clean.block
           ELSE Scrubbed(sim.after) = Scrubbed(sim.clean.block)

\* C28: a simulation_start that follows a simulation_set which returned True
\* passes the checks of the selection (a tool is selected, the tool is known, an
\* Isaac Sim path is there when the tool is isaac-sim, the location is known) and
\* reaches the launch.
StartFollowsSet ==
    [][ ( /\ sim.op = "simulation_set"
          /\ sim.ret = "True"
          /\ sim'.op = "simulation_start" )
        => sim'.reached = "launch" ]_vars

-----------------------------------------------------------------------------
(* A launch on the host: simulation_start_debug, simulation_robot_start_debug *)

Streams == {"stdout", "stderr"}

\* what a child can write: up to MaxLines lines, each to one of its two streams
RECURSIVE Programs(_)
Programs(n) ==
    IF n = 0 THEN {<<>>}
    ELSE Programs(n - 1)
         \cup {Append(p, s) : p \in {q \in Programs(n - 1) : Len(q) = n - 1}, s \in Streams}

\* the line the child writes as its n-th
Line(stream, n) == [stream |-> stream, n |-> n]

\* the parent is inside the try block
Launched == host.phase \in {"stdout", "wait", "stderr"}

\* the function returned ret
ReturnedFrom(ret) == [host EXCEPT !.phase = "done", !.ret = ret]

HostStep(h) ==
    /\ host' = h
    /\ UNCHANGED <<isaac, sim, dock>>
    /\ UNCHANGED storeVars

\* the check of install/setup.bash and subprocess.Popen(..., stdout=PIPE, stderr=PIPE)
Popen(start, program, returncode) ==
    /\ host = IdleHost
    /\ HostStep(IF start = "ok"
                THEN [IdleHost EXCEPT !.phase = "stdout", !.todo = program,
                                      !.returncode = returncode]
                ELSE ReturnedFrom("False"))

\* the child writes its next line: the write blocks while the pipe is full
ChildWrite ==
    /\ Launched
    /\ ~host.exited
    /\ host.todo # <<>>
    /\ Len(host[Head(host.todo)]) < PipeCapacity
    /\ HostStep([host EXCEPT ![Head(host.todo)] =
                                 Append(@, Line(Head(host.todo), host.written + 1)),
                             !.written = @ + 1,
                             !.todo = Tail(@)])

\* the child ends, which closes its end of both pipes
ChildExit ==
    /\ Launched
    /\ ~host.exited
    /\ host.todo = <<>>
    /\ HostStep([host EXCEPT !.exited = TRUE])

\* for line in process.stdout: print(line)
ReadStdout ==
    /\ host.phase = "stdout"
    /\ host.stdout # <<>>
    /\ HostStep([host EXCEPT !.stdout = Tail(@), !.shown = Append(@, Head(host.stdout))])

\* the loop over process.stdout ends at end of file
StdoutClosed ==
    /\ host.phase = "stdout"
    /\ host.stdout = <<>>
    /\ host.exited
    /\ HostStep([host EXCEPT !.phase = "wait"])

\* process.wait()
Wait ==
    /\ host.phase = "wait"
    /\ host.exited
    /\ HostStep([host EXCEPT !.phase = "stderr"])

\* for line in process.stderr: print(line in red)
ReadStderr ==
    /\ host.phase = "stderr"
    /\ host.stderr # <<>>
    /\ HostStep([host EXCEPT !.stderr = Tail(@), !.shown = Append(@, Head(host.stderr))])

\* the loop over process.stderr ends; return process.returncode == 0
StderrClosed ==
    /\ host.phase = "stderr"
    /\ host.stderr = <<>>
    /\ host.exited
    /\ HostStep(ReturnedFrom(IF host.returncode = 0 THEN "True" ELSE "False"))

\* Ctrl-C while the parent reads or waits; except KeyboardInterrupt: return False
Interrupt ==
    /\ Launched
    /\ HostStep(ReturnedFrom("False"))

InitLaunch ==
    /\ store = "none"
    /\ params_dict = EmptyDict
    /\ default_params = EmptyDict
    /\ attrs = EmptyDict
    /\ params_file = NoPath
    /\ file = AbsentFile
    /\ saved = [valid |-> FALSE, dict |-> EmptyDict]
    /\ nops = 0
    /\ last = NoOp
    /\ AtRest

NextLaunch ==
    \/ \E start \in {"ok", "not built", "OSError"} :
       \E program \in (IF start = "ok" THEN Programs(MaxLines) ELSE {<<>>}) :
       \E returncode \in (IF start = "ok" THEN {0, 1} ELSE {0}) :
          Popen(start, program, returncode)
    \/ ChildWrite
    \/ ChildExit
    \/ ReadStdout
    \/ StdoutClosed
    \/ Wait
    \/ ReadStderr
    \/ StderrClosed
    \/ Interrupt

SpecLaunch == InitLaunch /\ [][NextLaunch]_vars

\* the steps of the child and of the parent, which the operating system runs
\* whenever they can be taken; nobody has to press Ctrl-C
Child == ChildWrite \/ ChildExit

Parent == ReadStdout \/ StdoutClosed \/ Wait \/ ReadStderr \/ StderrClosed

SpecLaunchFair == SpecLaunch /\ WF_vars(Child) /\ WF_vars(Parent)

\* C26: the host launch forwards the lines of the child in the order the child
\* wrote them, whichever stream they went to: a line written to stderr is shown
\* before every line written after it.
ForwardedAsWritten ==
    \A i \in 1..Len(host.shown) : \A j \in 1..Len(host.shown) :
        i < j => host.shown[i].n < host.shown[j].n

\* C30: a host launch that was started returns: the parent never stays blocked
\* on a read while the child stays blocked on a write.
HostLaunchReturns == Launched ~> (host.phase = "done")

====
